---- MODULE Spec2Model ----
(***************************************************************************)
(* rss-to-podcast: the concurrent feed-to-speech pipeline.                 *)
(*                                                                         *)
(* Producers (one goroutine per feed, run in an errgroup by main) filter   *)
(* the feed's items and send a WorkerRequest per surviving item on a       *)
(* buffered channel.  A fixed pool of workers (processSpeechGeneration)    *)
(* ranges over the channel; for each request a worker tests whether the    *)
(* artifact exists, synthesizes every chunk with a bounded retry loop,     *)
(* writes the file, tags it and stamps its time.  main closes the channel  *)
(* after the errgroup has finished and then waits on the WaitGroup.        *)
(***************************************************************************)
EXTENDS Integers, Sequences, FiniteSets, Bags, TLC

(***************************************************************************)
(* Program constants                                                       *)
(***************************************************************************)
\* const SPEECH_SYNTHESIZE_RETRY_CNT = 5
SPEECH_SYNTHESIZE_RETRY_CNT == 5

\* hashString is cut to 50 characters
HASH_STRING_MAX == 50

(***************************************************************************)
(* Bounds of the model                                                     *)
(***************************************************************************)
\* the wall clock (in hours) runs from 0 to MaxNow
MaxNow == 1

\* config.ConcurrentWorkers is drawn from 0..MaxConcurrent
MaxConcurrent == 2

\* the program is run at most MaxRuns times against the same output directory
MaxRuns == 2

\* a constructor of the WorkerGroup is given a config.MaxItemPerFeed from
\* 0..MaxItems and a config.Feeds of 0..MaxFeeds feeds
MaxItems == 3

MaxFeeds == 3

(***************************************************************************)
(* Inputs: the configuration and the parsed feeds                          *)
(***************************************************************************)
\* config.MaxItemPerFeed, config.ItemSince (hours)
config == [MaxItemPerFeed |-> 2, ItemSince |-> 1]

\* a *time.Time: << >> is nil, << t >> points to the hour t of the wall clock
NoTime == << >>

\* The parsed feeds (gofeed.Feed), two feeds stored in the same directory.
\* An item's Title is an index into TitleBytes.  With the window of one hour
\* the first item of feed 1 is in the window at hour 0 only, an item
\* published at hour 0 until hour 1, and the first item of feed 2 never;
\* the third item of feed 1 lies beyond MaxItemPerFeed.  The title of the
\* second item of feed 2 agrees with that of the second item of feed 1 on its
\* first 25 bytes.
FEEDS ==
    << [Directory |-> 1,
        Items |-> << [Title |-> 1, PublishedParsed |-> << -1 >>, UpdatedParsed |-> NoTime],
                     [Title |-> 2, PublishedParsed |-> << 0 >>,  UpdatedParsed |-> << 1 >>],
                     [Title |-> 3, PublishedParsed |-> << 0 >>,  UpdatedParsed |-> NoTime] >>],
       [Directory |-> 1,
        Items |-> << [Title |-> 3, PublishedParsed |-> << -5 >>, UpdatedParsed |-> NoTime],
                     [Title |-> 3, PublishedParsed |-> << 0 >>,  UpdatedParsed |-> NoTime] >>] >>

Feeds == 1..Len(FEEDS)

Pad25 == [k \in 1..25 |-> 120]

\* The titles as byte strings: "a", and two titles of 26 bytes that agree on
\* their first 25 bytes.
TitleBytes == << <<97>>, Pad25 \o <<98>>, Pad25 \o <<99>> >>

Titles == 1..Len(TitleBytes)

\* rss.GetSynthesizeSpeechRequests: the number of chunks the text of an item
\* is split into
ChunksOf(title) == IF title = 2 THEN 2 ELSE 1

\* The audio the backend returns for chunk k of the text of a title
Audio(title, k) == << title, k >>

(***************************************************************************)
(* Identifier and paths                                                    *)
(***************************************************************************)
\* the MD5 digest of the empty input
Md5Empty == << 212, 29, 140, 217, 143, 0, 178, 4, 233, 128, 9, 152, 236, 248, 66, 126 >>

\* a digest of 16 bytes computed from b, in place of b
Md5SumOf(b) ==
    [k \in 1..16 |-> (k * (Len(b) + 1) + (IF b = << >> THEN 0 ELSE 7 * b[Len(b)])) % 256]

\* md5.New().Sum(b): appends the digest of what was written to the hash
\* (nothing) to b
Md5NewSum(b) == b \o Md5Empty

\* hex.EncodeToString: two hexadecimal digits per byte
HexEncodeToString(bs) ==
    [k \in 1..(2 * Len(bs)) |->
        LET b == bs[(k + 1) \div 2]
        IN  IF k % 2 = 1 THEN b \div 16 ELSE b % 16]

\* hashString of a title given as bytes: the hexadecimal digits of
\* md5.New().Sum([]byte(title)), cut to 50 characters
HashStringOf(bytes) ==
    LET hashString == HexEncodeToString(Md5NewSum(bytes))
    IN  IF Len(hashString) > HASH_STRING_MAX
        THEN SubSeq(hashString, 1, HASH_STRING_MAX)
        ELSE hashString

HashString(title) == HashStringOf(TitleBytes[title])

HashTable == [t \in Titles |-> HashString(t)]

\* filePath: Directory + "/" + hashString + ".mp3".  The hash string is
\* represented by the least title that has it.
FilePath(dir, title) ==
    << dir, CHOOSE u \in Titles :
                /\ HashTable[u] = HashTable[title]
                /\ \A v \in Titles : HashTable[v] = HashTable[title] => u <= v >>

Paths == { FilePath(FEEDS[f].Directory, t) : f \in Feeds, t \in Titles }

NoFile == [exists |-> FALSE]

File(content, mtime, tagged) ==
    [exists |-> TRUE, content |-> content, mtime |-> mtime, tagged |-> tagged]

(***************************************************************************)
(* State                                                                   *)
(***************************************************************************)
VARIABLES
    now,          \* the wall clock, in hours
    concurrent,   \* config.ConcurrentWorkers
    channel,      \* WorkerGroup.channel: the buffered requests
    closed,       \* the channel was closed
    closes,       \* how many times close(channel) was executed
    waitGroup,    \* the counter of the sync.WaitGroup
    mainpc,       \* main: "gwait", "wgwait", "done"
    producer,     \* per feed: the goroutine of g.Go and CreateSpeechFromItems
    worker,       \* the goroutines of processSpeechGeneration: the bag of their states
    fs,           \* the output directories: path -> file
    legacy,       \* the titles whose legacy file exists
    run,          \* the number of the run
    firstRun,     \* fs at the end of the first run
    secondRun,    \* what the later runs did: backend calls, writes
    cfg,          \* config.MaxItemPerFeed and len(config.Feeds)
    capacity      \* cap(channel)

vars == << now, concurrent, channel, closed, closes, waitGroup, mainpc, producer,
           worker, fs, legacy, run, firstRun, secondRun, cfg, capacity >>

\* a channel size that forgets the number of feeds
ChannelSizeOfOneFeed == cfg.MaxItemPerFeed

\* channelSize := config.MaxItemPerFeed * len(config.Feeds)
ChannelSize == cfg.MaxItemPerFeed * cfg.Feeds

Min(a, b) == IF a < b THEN a ELSE b

\* a worker for each of config.ConcurrentWorkers, whatever the channel holds
WorkerSizeConfigured(concurrentWorkers) == concurrentWorkers

\* workerSize := int(math.Min(float64(config.ConcurrentWorkers), float64(channelSize)))
WorkerSize(concurrentWorkers) == Min(concurrentWorkers, ChannelSize)

NoRequest == [feed |-> 0, idx |-> 0]

Request(f, k) == [feed |-> f, idx |-> k]

ItemOf(req) == FEEDS[req.feed].Items[req.idx]

\* A worker: where it is in processSpeechGeneration (pc) and its locals
\* workerItem, the chunk ssr of speechRequests, i, err (err != nil),
\* audioContent, and the value it returned (ret).  For the current item are
\* also recorded: missing (a chunk ended its retry loop without audio), sleeps
\* (the sleeps taken for the current chunk), last (what the last call of the
\* backend returned) and fifth (the chunk finished last took all the attempts).
IdleWorker ==
    [pc |-> "receive", workerItem |-> NoRequest, ssr |-> 0, i |-> 0, err |-> FALSE,
     audioContent |-> << >>, ret |-> "none",
     missing |-> FALSE, sleeps |-> 0, last |-> "none", fifth |-> FALSE]

\* go processSpeechGeneration(...), workerSize times
Spawn(workerSize) == [s \in {IdleWorker} |-> workerSize] (-) EmptyBag

StartProducer == [pc |-> "parse", idx |-> 0, itemCnt |-> 0, sent |-> << >>]

\* The state main has built when the producers start: NewWorkerGroup has made
\* the channel, added workerSize to the WaitGroup and spawned the workers.
Construct(c) ==
    /\ concurrent = c
    /\ capacity = ChannelSize
    /\ channel = << >>
    /\ closed = FALSE
    /\ closes = 0
    /\ waitGroup = WorkerSize(c)
    /\ mainpc = "gwait"
    /\ producer = [f \in Feeds |-> StartProducer]
    /\ worker = Spawn(WorkerSize(c))

\* what does not depend on the WorkerGroup when a run starts
Start ==
    /\ now = 0
    /\ fs = [p \in Paths |-> NoFile]
    /\ legacy \in {{}, {1}}
    /\ run = 1
    /\ firstRun = << >>
    /\ secondRun = [calls |-> FALSE, writes |-> FALSE]

Init ==
    /\ cfg = [MaxItemPerFeed |-> config.MaxItemPerFeed, Feeds |-> Len(FEEDS)]
    /\ \E c \in 0..MaxConcurrent : Construct(c)
    /\ Start

\* A WorkerGroup made for a configuration that lists one feed fewer than the
\* feeds CreateSpeechFromItems is called for: more items are ready than the
\* channel holds.
InitBackpressure ==
    /\ cfg = [MaxItemPerFeed |-> config.MaxItemPerFeed, Feeds |-> Len(FEEDS) - 1]
    /\ \E c \in 0..MaxConcurrent : Construct(c)
    /\ Start

(***************************************************************************)
(* The constructors of the WorkerGroup                                     *)
(***************************************************************************)
\* a worker of the offline pool, at the receive of processSpeechGenerationOffline
IdleWorkerOffline == [IdleWorker EXCEPT !.pc = "receive offline"]

\* go processSpeechGenerationOffline(...), workerSize times
SpawnOffline(workerSize) == [s \in {IdleWorkerOffline} |-> workerSize] (-) EmptyBag

\* Before a constructor is called: a configuration, a WaitGroup at zero and
\* no channel and no worker yet.
InitConstruct ==
    /\ concurrent \in 0..MaxConcurrent
    /\ cfg \in [MaxItemPerFeed : 0..MaxItems, Feeds : 0..MaxFeeds]
    /\ mainpc = "new"
    /\ capacity = 0
    /\ channel = << >>
    /\ closed = FALSE
    /\ closes = 0
    /\ waitGroup = 0
    /\ producer = [f \in Feeds |-> StartProducer]
    /\ worker = EmptyBag
    /\ Start

\* NewWorkerGroup: the channel is made, workerSize is added to the WaitGroup
\* and workerSize workers are spawned
NewWorkerGroup ==
    /\ mainpc = "new"
    /\ capacity' = ChannelSize
    /\ waitGroup' = waitGroup + WorkerSize(concurrent)
    /\ worker' = Spawn(WorkerSize(concurrent))
    /\ mainpc' = "gwait"
    /\ UNCHANGED << now, concurrent, channel, closed, closes, producer,
                    fs, legacy, cfg, run, firstRun, secondRun >>

\* NewWorkerGroupOffline: the same with the workers of the offline backend
NewWorkerGroupOffline ==
    /\ mainpc = "new"
    /\ capacity' = ChannelSize
    /\ waitGroup' = waitGroup + WorkerSize(concurrent)
    /\ worker' = SpawnOffline(WorkerSize(concurrent))
    /\ mainpc' = "gwait"
    /\ UNCHANGED << now, concurrent, channel, closed, closes, producer,
                    fs, legacy, cfg, run, firstRun, secondRun >>

(***************************************************************************)
(* The wall clock                                                          *)
(***************************************************************************)
Tick ==
    /\ now < MaxNow
    /\ now' = now + 1
    /\ UNCHANGED << concurrent, channel, closed, closes, waitGroup, mainpc, producer,
                    worker, fs, legacy, cfg, capacity, run, firstRun, secondRun >>

(***************************************************************************)
(* Producers                                                               *)
(***************************************************************************)
\* time.Since((*itemPublishTime).Local()).Hours() <= itemSince; the pointer
\* is dereferenced
isInRange(itemPublishTime, itemSince) == now - itemPublishTime[1] <= itemSince

\* an itemSize that forgets the limit
itemSizeNoLimit(size, limit) == size

\* itemSize: the smaller of len(feed.Items) and config.MaxItemPerFeed
itemSize(size, limit) == IF size > limit THEN limit ELSE size

ItemSizeOf(f) == itemSize(Len(FEEDS[f].Items), config.MaxItemPerFeed)

\* main, the function given to g.Go: the feed is parsed; without an item in
\* the window the goroutine returns, else the directory is made and
\* CreateSpeechFromItems starts.  A feed that cannot be fetched or a directory
\* that cannot be made ends the process (log.Fatalf, log.Panicf); the runs
\* modelled are those in which both succeed.
ParseFeed(f) ==
    /\ producer[f].pc = "parse"
    /\ LET hasValidItems ==
               \E k \in 1..Len(FEEDS[f].Items) :
                   isInRange(FEEDS[f].Items[k].PublishedParsed, config.ItemSince)
       IN  producer' = [producer EXCEPT ![f].pc =
                            IF hasValidItems /\ ItemSizeOf(f) > 0 THEN "items" ELSE "done",
                                        ![f].idx = 1]
    /\ UNCHANGED << now, concurrent, channel, closed, closes, waitGroup, mainpc,
                    worker, fs, legacy, cfg, capacity, run, firstRun, secondRun >>

\* the condition under which the loop of CreateSpeechFromItems sends the item
Eligible(f, item) ==
    /\ isInRange(item.PublishedParsed, config.ItemSince)
    /\ producer[f].itemCnt < ItemSizeOf(f)

\* a channel that always has room
ChannelNeverFull(ch) == FALSE

\* a send on the channel blocks while the buffer holds cap(channel) requests
ChannelFull(ch) == Len(ch) >= capacity

\* CreateSpeechFromItems: one iteration of the loop over feed.Items[:itemSize].
\* The send blocks while the channel is full: a producer that finds it full
\* waits at the send (pc "send") and sends when there is room.
CreateSpeechFromItems(f) ==
    /\ producer[f].pc \in {"items", "send"}
    /\ LET k    == producer[f].idx
           item == FEEDS[f].Items[k]
           next == IF k = ItemSizeOf(f) THEN "done" ELSE "items"
       IN  IF producer[f].pc = "send" \/ Eligible(f, item)
           THEN IF ~ChannelFull(channel)
                THEN /\ channel' = Append(channel, Request(f, k))
                     /\ producer' = [producer EXCEPT ![f].pc = next,
                                                     ![f].idx = k + 1,
                                                     ![f].itemCnt = @ + 1,
                                                     ![f].sent = Append(@, k)]
                ELSE /\ producer[f].pc = "items"
                     /\ producer' = [producer EXCEPT ![f].pc = "send"]
                     /\ channel' = channel
           ELSE /\ producer' = [producer EXCEPT ![f].pc = next, ![f].idx = k + 1]
                /\ channel' = channel
    /\ UNCHANGED << now, concurrent, closed, closes, waitGroup, mainpc,
                    worker, fs, legacy, cfg, capacity, run, firstRun, secondRun >>

(***************************************************************************)
(* main                                                                    *)
(***************************************************************************)
\* a g.Wait() that returns as soon as one function has returned
GroupWaitReturnsFirst == \E f \in Feeds : producer[f].pc = "done"

\* g.Wait() returns when every function given to g.Go has returned
GroupWaitReturns == \A f \in Feeds : producer[f].pc = "done"

\* main: g.Wait() has returned; WorkerGroup.Close closes the channel
Close ==
    /\ mainpc = "gwait"
    /\ GroupWaitReturns
    /\ closed' = TRUE
    /\ closes' = closes + 1
    /\ mainpc' = "wgwait"
    /\ UNCHANGED << now, concurrent, channel, waitGroup, producer,
                    worker, fs, legacy, cfg, capacity, run, firstRun, secondRun >>

\* main: wg.Wait() returns when the counter is zero; "Done processing all feeds"
WaitGroupWait ==
    /\ mainpc = "wgwait"
    /\ waitGroup = 0
    /\ mainpc' = "done"
    /\ UNCHANGED << now, concurrent, channel, closed, closes, waitGroup, producer,
                    worker, fs, legacy, cfg, capacity, run, firstRun, secondRun >>

(***************************************************************************)
(* Workers: processSpeechGeneration                                        *)
(*                                                                         *)
(* The workers run the same function on the same arguments and have no     *)
(* identity of their own, so the pool is the bag of the workers' states:   *)
(* a step of a worker replaces one copy of its state by the next state.    *)
(***************************************************************************)
\* the states the workers of the pool are in
Pool == BagToSet(worker)

\* the pool after a worker in state me has moved to state next
Becomes(me, next) == (worker (-) SetToBag({me})) (+) SetToBag({next})

\* a return that does not run wg.Done()
WaitGroupDoneMissing(counter) == counter

\* defer wg.Done()
WaitGroupDone(counter) == counter - 1

\* return e: the worker ends and the deferred wg.Done() runs.  e is "nil", or
\* names the call whose error is returned.
Return(me, e) ==
    /\ worker' = Becomes(me, [IdleWorker EXCEPT
                                  !.pc = "done", !.ret = e,
                                  !.last = IF e = "synthesize" THEN "error" ELSE "none"])
    /\ waitGroup' = WaitGroupDone(waitGroup)

\* a receive that takes the request sent last
ChannelReceiveLast(ch) ==
    [item |-> ch[Len(ch)], rest |-> SubSeq(ch, 1, Len(ch) - 1)]

\* a receive from a channel: the request sent first leaves the buffer
ChannelReceive(ch) == [item |-> Head(ch), rest |-> Tail(ch)]

\* for workerItem := range workerItems: a request is received, or the channel
\* is closed and empty and the loop ends
Receive(me) ==
    /\ me.pc = "receive"
    /\ IF channel # << >>
       THEN /\ worker' = Becomes(me, [IdleWorker EXCEPT
                                         !.pc = "check",
                                         !.workerItem = ChannelReceive(channel).item])
            /\ channel' = ChannelReceive(channel).rest
            /\ waitGroup' = waitGroup
       ELSE /\ closed
            /\ Return(me, "nil")
            /\ channel' = channel
    /\ UNCHANGED << now, concurrent, closed, closes, mainpc, producer,
                    fs, legacy, cfg, capacity, run, firstRun, secondRun >>

\* an existence test that never finds the file
fileExistsNever(path) == FALSE

\* os.Stat(path) succeeds
fileExistsAndLog(path) == fs[path].exists

\* the file at legacyFilePath exists
legacyFileExists(title) == title \in legacy

PathOf(req) == FilePath(FEEDS[req.feed].Directory, ItemOf(req).Title)

\* the existence test: an existing artifact skips the item, else the chunks
\* are built and audioContent starts empty
Check(me) ==
    /\ me.pc = "check"
    /\ LET req == me.workerItem
       IN  IF legacyFileExists(ItemOf(req).Title) \/ fileExistsAndLog(PathOf(req))
           THEN worker' = Becomes(me, IdleWorker)
           ELSE worker' = Becomes(me, [me EXCEPT !.pc = "synthesize", !.ssr = 1,
                                                 !.i = 0, !.err = FALSE,
                                                 !.audioContent = << >>])
    /\ UNCHANGED << now, concurrent, channel, closed, closes, waitGroup, mainpc, producer,
                    fs, legacy, cfg, capacity, run, firstRun, secondRun >>

\* what a call of client.SynthesizeSpeech returns: an error, a response
\* without audio, a response with audio
Outcomes == {"error", "empty", "audio"}

\* time.Sleep(time.Second) runs before an attempt when i > 0
SleepsBefore(i) == IF i > 0 THEN 1 ELSE 0

\* a retry loop with the condition i <= SPEECH_SYNTHESIZE_RETRY_CNT
RetryGoesOnOneMore(i) == i <= SPEECH_SYNTHESIZE_RETRY_CNT

\* the retry loop goes on while i < SPEECH_SYNTHESIZE_RETRY_CNT
RetryGoesOn(i) == i < SPEECH_SYNTHESIZE_RETRY_CNT

\* the audio of a chunk put in front of what was accumulated
PrependAudio(audioContent, audio) == audio \o audioContent

\* audioContent = append(audioContent, resp.AudioContent...)
AppendAudio(audioContent, audio) == audioContent \o audio

\* after the retry loop: if err != nil { return err }
ReturnsAfterLoop(err) == err

\* One attempt of the retry loop for the chunk ssr: the sleep when i > 0, the
\* call of client.SynthesizeSpeech, and what follows it up to the next call:
\* after an error or an empty payload the loop goes on; after audio it
\* breaks; when the loop has ended an error returns, else the next chunk
\* starts or the chunk loop has ended.
Synthesize(me, outcome) ==
    /\ me.pc = "synthesize"
    /\ LET title   == ItemOf(me.workerItem).Title
           err     == outcome = "error"
           content == IF outcome = "audio"
                      THEN AppendAudio(me.audioContent, Audio(title, me.ssr))
                      ELSE me.audioContent
           i       == me.i + 1
           ended   == outcome = "audio" \/ ~RetryGoesOn(i)
           slept   == me.sleeps + SleepsBefore(me.i)
       IN  IF ~ended
           THEN /\ worker' = Becomes(me, [me EXCEPT !.i = i, !.err = err,
                                                    !.sleeps = slept, !.last = outcome])
                /\ waitGroup' = waitGroup
           ELSE IF ReturnsAfterLoop(err)
           THEN Return(me, "synthesize")
           ELSE /\ worker' = Becomes(me, [me EXCEPT
                       !.pc = IF me.ssr < ChunksOf(title) THEN "synthesize" ELSE "write",
                       !.ssr = me.ssr + 1,
                       !.i = 0,
                       !.err = FALSE,
                       !.audioContent = content,
                       !.missing = me.missing \/ outcome = "empty",
                       !.sleeps = 0,
                       !.last = outcome,
                       !.fifth = (i = SPEECH_SYNTHESIZE_RETRY_CNT)])
                /\ waitGroup' = waitGroup
    /\ secondRun' = IF run > 1 THEN [secondRun EXCEPT !.calls = TRUE] ELSE secondRun
    /\ UNCHANGED << now, concurrent, channel, closed, closes, mainpc, producer,
                    fs, legacy, cfg, capacity, run, firstRun >>

\* the bytes os.WriteFile stores
WrittenContent(audioContent) == audioContent

\* an open that fails to replace a file that exists (O_EXCL)
OpenFileExclusive(old, written) == IF old.exists THEN old ELSE written

\* os.WriteFile opens with O_WRONLY|O_CREATE|O_TRUNC: what was at the path
\* is replaced
OpenFile(old, written) == written

\* os.WriteFile(filePath, audioContent, 0o755): the file is created or
\* truncated and the content written; on failure the file may not have been
\* opened, or was opened and truncated
WriteFile(me, outcome) ==
    /\ me.pc = "write"
    /\ LET p == PathOf(me.workerItem)
       IN  CASE outcome = "ok" ->
                    /\ fs' = [fs EXCEPT ![p] =
                                OpenFile(fs[p], File(WrittenContent(me.audioContent),
                                                     now, FALSE))]
                    /\ worker' = Becomes(me, [me EXCEPT !.pc = "tag"])
                    /\ waitGroup' = waitGroup
             [] outcome = "open fails" ->
                    /\ fs' = fs
                    /\ Return(me, "write")
             [] outcome = "write fails" ->
                    /\ fs' = [fs EXCEPT ![p] = File(<< >>, now, FALSE)]
                    /\ Return(me, "write")
    /\ secondRun' = IF run > 1 /\ fs' # fs THEN [secondRun EXCEPT !.writes = TRUE]
                    ELSE secondRun
    /\ UNCHANGED << now, concurrent, channel, closed, closes, mainpc, producer,
                    legacy, cfg, capacity, run, firstRun >>

\* tool.WriteID3Tag(filePath, feedItem.Title, workerItem.Directory): the
\* title tag is embedded into the file at the path
WriteID3Tag(me) ==
    /\ me.pc = "tag"
    /\ LET p == PathOf(me.workerItem)
       IN  fs' = IF fs[p].exists
                 THEN [fs EXCEPT ![p].tagged = TRUE, ![p].mtime = now]
                 ELSE fs
    /\ worker' = Becomes(me, [me EXCEPT !.pc = "chtimes"])
    /\ secondRun' = IF run > 1 /\ fs' # fs THEN [secondRun EXCEPT !.writes = TRUE]
                    ELSE secondRun
    /\ UNCHANGED << now, concurrent, channel, closed, closes, waitGroup, mainpc, producer,
                    legacy, cfg, capacity, run, firstRun >>

\* a fileTime that prefers the publish time
fileTimePublishedFirst(item) ==
    IF item.PublishedParsed # NoTime THEN item.PublishedParsed[1]
    ELSE IF item.UpdatedParsed # NoTime THEN item.UpdatedParsed[1]
    ELSE now

\* fileTime: UpdatedParsed, else PublishedParsed, else time.Now()
fileTime(item) ==
    IF item.UpdatedParsed # NoTime THEN item.UpdatedParsed[1]
    ELSE IF item.PublishedParsed # NoTime THEN item.PublishedParsed[1]
    ELSE now

\* os.Chtimes(filePath, fileTime, fileTime); an error returns, else the item
\* is finished and the loop receives again
Chtimes(me, ok) ==
    /\ me.pc = "chtimes"
    /\ LET p == PathOf(me.workerItem)
       IN  IF ok /\ fs[p].exists
           THEN /\ fs' = [fs EXCEPT ![p].mtime = fileTime(ItemOf(me.workerItem))]
                /\ worker' = Becomes(me, IdleWorker)
                /\ waitGroup' = waitGroup
           ELSE /\ fs' = fs
                /\ Return(me, "chtimes")
    /\ secondRun' = IF run > 1 /\ fs' # fs THEN [secondRun EXCEPT !.writes = TRUE]
                    ELSE secondRun
    /\ UNCHANGED << now, concurrent, channel, closed, closes, mainpc, producer,
                    legacy, cfg, capacity, run, firstRun >>

(***************************************************************************)
(* The program is run again                                                *)
(***************************************************************************)
\* every request of the run was processed and no worker returned an error
EveryItemSucceeded ==
    /\ mainpc = "done"
    /\ channel = << >>
    /\ \A s \in Pool : s.ret = "nil"

\* After a run in which every item succeeded the program is started again,
\* at the same or a later time, with the same configuration and feeds and
\* the output directories the run has left.
Rerun ==
    /\ run < MaxRuns
    /\ EveryItemSucceeded
    /\ run' = run + 1
    /\ firstRun' = IF run = 1 THEN fs ELSE firstRun
    /\ \E t \in now..MaxNow : now' = t
    /\ channel' = << >>
    /\ closed' = FALSE
    /\ closes' = 0
    /\ waitGroup' = WorkerSize(concurrent)
    /\ mainpc' = "gwait"
    /\ producer' = [f \in Feeds |-> StartProducer]
    /\ worker' = Spawn(WorkerSize(concurrent))
    /\ UNCHANGED << concurrent, fs, legacy, cfg, capacity, secondRun >>

(***************************************************************************)
(* Properties                                                              *)
(***************************************************************************)
\* a worker in state s moves to state t in this step
Moves(s, t) == s # t /\ worker' = Becomes(s, t)

\* the workers that have not returned
RunningWorkers ==
    LET running == { s \in Pool : s.pc # "done" }
    IN  BagCardinality([s \in running |-> CopiesIn(s, worker)] (-) EmptyBag)

\* the audio of the chunks 1..n of a title, in chunk order
RECURSIVE ChunksAudio(_, _)
ChunksAudio(title, n) ==
    IF n = 0 THEN << >> ELSE ChunksAudio(title, n - 1) \o Audio(title, n)

\* C1: a worker whose item ended in a terminal error (the attempts of a chunk
\* are used up, or the file write failed) does not terminate but goes back to
\* the queue: a worker that has terminated has found the queue closed and
\* empty and returned nil.
C1_WorkerSurvivesItemError ==
    \A s \in Pool : s.pc = "done" => s.ret = "nil"

\* C2: when the join has returned and the run reports completion, every
\* request a producer enqueued has been dequeued by a worker, also when an
\* item ended in an error (stated for the runs with at least one worker).
C2_QueueDrainedAtCompletion ==
    (mainpc = "done" /\ WorkerSize(concurrent) > 0) => channel = << >>

\* C3: the queue is closed at most once, and exactly once when main has gone
\* past the close, and only when every producer has finished; once it is
\* closed no producer sends on it and it stays closed.
C3_ClosedOnceAfterProducers ==
    [][ /\ closes' <= 1
        /\ closed' <=> closes' = 1
        /\ mainpc' \in {"wgwait", "done"} <=> closes' = 1
        /\ closed' => \A f \in Feeds : producer'[f].pc = "done"
        /\ closed => closed' /\ producer' = producer /\ Len(channel') <= Len(channel)
      ]_vars

\* C3 witness: the queue is closed after both producers have enqueued
C3_Witness ==
    /\ closed
    /\ closes = 1
    /\ \A f \in Feeds : producer[f].sent # << >>

\* C4: the counter of the WaitGroup equals the number of workers that have
\* not returned and is never negative, whether a worker returned nil or an
\* error; when the join has returned every worker has terminated.
C4_JoinWaitsForEveryWorker ==
    /\ waitGroup = RunningWorkers
    /\ waitGroup >= 0
    /\ mainpc = "done" => \A s \in Pool : s.pc = "done"

\* C4 witness: the queue is closed and the join waits while a worker is in
\* the middle of its retry loop and another has returned an error
C4_Witness ==
    /\ closed
    /\ mainpc = "wgwait"
    /\ waitGroup = 1
    /\ \E s \in Pool : s.pc = "synthesize" /\ s.i >= 1
    /\ \E s \in Pool : s.pc = "done" /\ s.ret # "nil"

\* C5: for each chunk the backend is called at most 5 times, with a sleep
\* before each attempt except the first; an attempt that returns audio is the
\* last for its chunk; a failed attempt before the fifth is followed by a
\* further attempt; audio on the fifth attempt after four failures lets the
\* item go on without an error; an error on the fifth attempt after four
\* failures returns the error and writes no file.
C5_RetryBound ==
    [][ \A s \in Pool : \A t \in BagToSet(worker') :
          (Moves(s, t) /\ s.pc = "synthesize") =>
             LET nth     == s.i + 1
                 outcome == t.last
                 n       == ChunksOf(ItemOf(s.workerItem).Title)
                 goesOn  == /\ t.ret = "none"
                            /\ IF s.ssr < n
                               THEN t.pc = "synthesize" /\ t.ssr = s.ssr + 1 /\ t.i = 0
                               ELSE t.pc = "write"
             IN  /\ nth <= 5
                 /\ s.sleeps = (IF s.i = 0 THEN 0 ELSE s.i - 1)
                 /\ outcome \in {"error", "empty", "audio"}
                 /\ outcome = "audio" => goesOn
                 /\ (outcome # "audio" /\ nth < 5) =>
                        /\ t.pc = "synthesize" /\ t.ssr = s.ssr /\ t.i = nth
                        /\ t.sleeps = nth - 1
                        /\ t.audioContent = s.audioContent
                 /\ (outcome = "error" /\ nth = 5) =>
                        /\ t.pc = "done" /\ t.ret = "synthesize"
                        /\ fs' = fs
      ]_vars

\* C5 witness: one worker has got audio on the fifth attempt of a chunk and
\* goes on to write, another has returned the error of a fifth attempt
C5_Witness ==
    /\ \E s \in Pool : s.pc = "write" /\ s.fifth /\ s.last = "audio" /\ s.ret = "none"
    /\ \E s \in Pool : s.pc = "done" /\ s.ret = "synthesize" /\ s.last = "error"

\* C6: a chunk whose attempts are used up with an empty payload on the last
\* of them ends the item in a terminal error: no worker goes on with an item
\* of which a chunk ended its retry loop without audio.
C6_EmptyPayloadIsTerminal ==
    \A s \in Pool : s.missing => s.pc = "done"

\* C7: a worker writes the file of an item only after every chunk of the
\* item has contributed its audio: a worker that has written the file of its
\* item has no chunk that ended without audio.
C7_NoFileUnlessEveryChunk ==
    \A s \in Pool : s.pc \in {"tag", "chtimes"} => ~s.missing

\* C8: for an item of which every chunk returned audio, what the worker has
\* accumulated when the chunk loop has ended, and what it writes to the file,
\* is the audio of the chunks 1..n in chunk order, each once, whatever
\* attempts failed in between.
C8_ChunkConcatenation ==
    [][ \A s \in Pool : \A t \in BagToSet(worker') :
          (Moves(s, t) /\ s.pc = "write" /\ t.pc = "tag" /\ ~s.missing) =>
             LET title == ItemOf(s.workerItem).Title
                 file  == fs'[PathOf(s.workerItem)]
             IN  /\ file.exists
                 /\ file.content = ChunksAudio(title, ChunksOf(title))
      ]_vars

\* C8 witness: the file of the item of two chunks holds the audio of chunk 1
\* followed by that of chunk 2, the second got on the fifth attempt
C8_Witness ==
    \E s \in Pool :
        /\ s.pc = "tag" /\ ~s.missing /\ s.fifth
        /\ ChunksOf(ItemOf(s.workerItem).Title) = 2
        /\ fs[PathOf(s.workerItem)].exists
        /\ fs[PathOf(s.workerItem)].content = << 2, 1, 2, 2 >>

\* C9: a step of the producer of a feed handles the next of the first
\* min(len(items), maxItemsPerFeed) items, in feed order; it appends exactly
\* one request for the item to the queue when the item's age is within the
\* window and none otherwise; the producer finishes with the last of these
\* items; nothing else appends to the queue, and what a producer has sent is
\* strictly increasing in feed order, so no item is enqueued twice.
C9_ProducerFilter ==
    [][ /\ \A f \in Feeds :
             LET p     == producer[f]
                 q     == producer'[f]
                 items == FEEDS[f].Items
                 n     == Min(Len(items), config.MaxItemPerFeed)
                 k     == p.idx
             IN  (p.pc = "items" /\ q # p) =>
                    /\ k \in 1..n
                    /\ \A j \in 1..Len(p.sent) : p.sent[j] < k
                    /\ IF now - items[k].PublishedParsed[1] <= config.ItemSince
                       THEN /\ channel' = Append(channel, Request(f, k))
                            /\ q.sent = Append(p.sent, k)
                       ELSE /\ channel' = channel
                            /\ q.sent = p.sent
                    /\ q.idx = k + 1
                    /\ q.pc = (IF k = n THEN "done" ELSE "items")
        /\ Len(channel') > Len(channel) =>
             \E f \in Feeds : producer[f].pc = "items" /\ producer'[f] # producer[f]
      ]_vars

\* C9 witness: feed 1 has sent its first two items in order and not the
\* third, feed 2 has left out its first item and sent the second
C9_Witness ==
    /\ \A f \in Feeds : producer[f].pc = "done"
    /\ producer[1].sent = << 1, 2 >>
    /\ producer[2].sent = << 2 >>

\* C10: in a run after a first run in which every item succeeded, against
\* the same feeds and the output directories the first run left, no backend
\* call and no write to a file happens, and every file keeps the content and
\* the modification time the first run gave it.
C10_SecondRunIdempotent ==
    run > 1 =>
        /\ ~secondRun.calls
        /\ ~secondRun.writes
        /\ fs = firstRun

\* C10 witness: the second run has completed, its producers have enqueued
\* the items again, and the files of the first run are there
C10_Witness ==
    /\ run = 2
    /\ mainpc = "done"
    /\ \A f \in Feeds : producer[f].sent # << >>
    /\ \A p \in Paths : fs[p].exists /\ fs[p].tagged

\* the Dedup Gate in a step of a worker from state s to state t: the item is
\* skipped exactly when the legacy file or the file at the hashed path exists
\* when the test runs; a skip calls no backend and writes nothing and takes
\* the worker back to the receive
C11_Skips(s, t) ==
    s.pc = "check" =>
        LET req    == s.workerItem
            exists == \/ ItemOf(req).Title \in legacy
                      \/ fs[PathOf(req)].exists
        IN  /\ t.pc \in {"receive", "synthesize"}
            /\ t.pc = "receive" <=> exists
            /\ t.pc = "receive" => t = IdleWorker /\ fs' = fs /\ secondRun' = secondRun
            /\ t.pc = "synthesize" => t.workerItem = req /\ t.audioContent = << >>

\* a worker terminates only from the receive, when the queue is closed and
\* drained
C11_Terminates(s, t) ==
    t.pc = "done" => s.pc = "receive" /\ closed /\ channel = << >>

\* C11: a worker skips an item exactly when the artifact at the hashed path
\* or the legacy artifact exists at check time; a skipped item causes no
\* backend call and no write; the worker does not terminate on a skip but
\* goes back to receiving, and it terminates only when the queue is closed
\* and drained.
C11_DedupGateAndLoop ==
    [][ \A s \in Pool : \A t \in BagToSet(worker') :
          Moves(s, t) => C11_Skips(s, t) /\ C11_Terminates(s, t)
      ]_vars

\* the part of C11 about the skip alone
C11_DedupGate ==
    [][ \A s \in Pool : \A t \in BagToSet(worker') : Moves(s, t) => C11_Skips(s, t) ]_vars

\* C12: the existence test and the write are separate steps and nothing
\* ties them together: a worker passes the test whenever no artifact exists
\* at that time, whatever the other workers hold, and its write replaces
\* whatever is at the path, also the file another worker wrote for a request
\* with the same identifier and directory; two workers can therefore both
\* pass the test and both write, the second write overwriting the first.
C12_SecondWriteOverwrites ==
    [][ \A s \in Pool : \A t \in BagToSet(worker') :
          Moves(s, t) =>
             LET p == PathOf(s.workerItem)
             IN  /\ (/\ s.pc = "check"
                     /\ ItemOf(s.workerItem).Title \notin legacy
                     /\ ~fs[p].exists) => t.pc = "synthesize"
                 /\ (s.pc = "write" /\ t.pc = "tag") =>
                        /\ fs'[p].exists
                        /\ fs'[p].content = s.audioContent
                        /\ ~fs'[p].tagged
                        /\ \A q \in Paths \ {p} : fs'[q] = fs[q]
      ]_vars

\* C12 witness: two workers hold different requests with the same identifier
\* and directory, both have passed the test and both have written: the first
\* has written and tagged its file, and the file now holds the audio of the
\* second and no tag
C12_Witness ==
    \E s \in Pool : \E t \in Pool :
        LET p == PathOf(s.workerItem)
        IN  /\ s.workerItem # NoRequest /\ t.workerItem # NoRequest
            /\ s.workerItem # t.workerItem
            /\ PathOf(t.workerItem) = p
            /\ s.pc = "chtimes" /\ t.pc = "tag"
            /\ fs[p].exists /\ ~fs[p].tagged
            /\ fs[p].content = t.audioContent
            /\ fs[p].content # s.audioContent

\* how many copies of the request r are in the channel ch or held by a worker
\* of the pool w
CopiesOfRequest(ch, w, r) ==
    LET holders == { s \in BagToSet(w) : s.workerItem = r }
    IN  Cardinality({ k \in 1..Len(ch) : ch[k] = r })
          + BagCardinality([s \in holders |-> CopiesIn(s, w)] (-) EmptyBag)

\* C13: each enqueued request is received by at most one worker, and the
\* requests leave the queue in the order they were enqueued.  In every step:
\* a request is in the queue or with a worker at most once; a worker gets a
\* request only by receiving, it gets the request that was enqueued first of
\* those in the queue, and that request leaves the queue in the same step;
\* the queue changes otherwise only by a producer appending, at the end, a
\* request that was not sent before.
C13_OneWorkerPerRequestInOrder ==
    [][ /\ \A f \in Feeds : \A k \in 1..Len(FEEDS[f].Items) :
              /\ CopiesOfRequest(channel, worker, Request(f, k)) <= 1
              /\ CopiesOfRequest(channel', worker', Request(f, k)) <= 1
        /\ \A s \in Pool : \A t \in BagToSet(worker') :
              (Moves(s, t) /\ t.workerItem # s.workerItem /\ t.workerItem # NoRequest) =>
                  /\ s.pc = "receive"
                  /\ channel # << >>
                  /\ t.workerItem = Head(channel)
                  /\ channel' = Tail(channel)
        /\ channel' # channel =>
              \/ /\ channel # << >>
                 /\ channel' = Tail(channel)
                 /\ \E s \in Pool : \E t \in BagToSet(worker') :
                        Moves(s, t) /\ s.pc = "receive" /\ t.workerItem = Head(channel)
              \/ /\ worker' = worker
                 /\ \E f \in Feeds : \E k \in 1..Len(FEEDS[f].Items) :
                        /\ channel' = Append(channel, Request(f, k))
                        /\ \A j \in 1..Len(producer[f].sent) : producer[f].sent[j] # k
                        /\ producer'[f].sent = Append(producer[f].sent, k)
      ]_vars

\* C13 witness: two workers have received from a queue that held the three
\* requests: they hold the two requests of feed 1 and the request of feed 2,
\* enqueued last, is the one left
C13_Witness ==
    /\ channel = << Request(2, 2) >>
    /\ \E s \in Pool : s.workerItem = Request(1, 1) /\ s.pc = "check"
    /\ \E s \in Pool : s.workerItem = Request(1, 2) /\ s.pc = "check"

\* C14: the queue never holds more than C = maxItemsPerFeed * feedCount
\* requests.  A producer with an item to send that finds C requests in the
\* queue blocks at the send, keeping the item; while the queue holds C
\* requests it changes only by a worker receiving; the blocked producer goes
\* on only when there is room, by sending the item it kept.  No item in the
\* window is dropped, and a producer finishes only with the last of its
\* items.
C14_Backpressure ==
    [][ /\ capacity = cfg.MaxItemPerFeed * cfg.Feeds
        /\ Len(channel) <= capacity
        /\ Len(channel') <= capacity
        /\ (Len(channel) = capacity /\ channel' # channel) =>
               /\ channel' = Tail(channel)
               /\ \E s \in Pool : \E t \in BagToSet(worker') :
                      Moves(s, t) /\ s.pc = "receive" /\ t.workerItem = Head(channel)
        /\ \A f \in Feeds :
             LET p     == producer[f]
                 q     == producer'[f]
                 items == FEEDS[f].Items
                 n     == Min(Len(items), config.MaxItemPerFeed)
                 k     == p.idx
                 sends == /\ Len(channel) < capacity
                          /\ channel' = Append(channel, Request(f, k))
                          /\ q.sent = Append(p.sent, k)
                          /\ q.idx = k + 1
                          /\ q.pc = (IF k = n THEN "done" ELSE "items")
                 waits == /\ Len(channel) = capacity
                          /\ channel' = channel
                          /\ q = [p EXCEPT !.pc = "send"]
             IN  /\ (p.pc = "items" /\ q # p
                       /\ now - items[k].PublishedParsed[1] <= config.ItemSince) =>
                         sends \/ waits
                 /\ (p.pc = "send" /\ q # p) => sends
                 /\ (p.pc \in {"items", "send"} /\ q.pc = "done") => k = n
      ]_vars

\* C14 witness: the producer of feed 2 found the queue full with the two
\* requests of feed 1 and waits at the send with its item; a worker has
\* received one request since, so there is room
C14_Witness ==
    /\ producer[2].pc = "send"
    /\ producer[2].idx = 2
    /\ producer[1].sent = << 1, 2 >>
    /\ channel = << Request(1, 2) >>
    /\ \E s \in Pool : s.workerItem = Request(1, 1)

\* the items fileTime is evaluated on: with and without a publish time, with
\* and without an update time
ItemShapes ==
    [Title : {1}, PublishedParsed : {NoTime, << 0 >>}, UpdatedParsed : {NoTime, << 1 >>}]

\* the time the policy gives an item at the hour clock
TimestampPolicy(item, clock) ==
    CASE Len(item.UpdatedParsed) = 1   -> item.UpdatedParsed[1]
      [] Len(item.UpdatedParsed) = 0 /\ Len(item.PublishedParsed) = 1
                                       -> item.PublishedParsed[1]
      [] OTHER                         -> clock

\* C15: the step that finishes an item sets the modification time of the
\* artifact to the item's update time if it is present, else to its publish
\* time, else to the current time, and changes nothing else of the file; a
\* worker comes to this step only after the tag, and to the tag only after
\* the write, and the item is finished with it, so the time is the last
\* change the worker makes to the file.  fileTime follows the policy on
\* every shape of item.
C15_TimestampPolicy ==
    [][ /\ \A item \in ItemShapes : fileTime(item) = TimestampPolicy(item, now)
        /\ \A s \in Pool : \A t \in BagToSet(worker') :
              Moves(s, t) =>
                 LET p == PathOf(s.workerItem)
                 IN  /\ t.pc = "tag" => s.pc = "write" /\ t.workerItem = s.workerItem
                     /\ t.pc = "chtimes" => s.pc = "tag" /\ t.workerItem = s.workerItem
                     /\ (s.pc = "chtimes" /\ t.pc # "done") =>
                            /\ t = IdleWorker
                            /\ fs'[p].exists
                            /\ fs'[p].mtime = TimestampPolicy(ItemOf(s.workerItem), now)
                            /\ fs' = [fs EXCEPT ![p].mtime = fs'[p].mtime]
      ]_vars

\* C15 witness: at hour 0 the items of feed 1 are finished: the file of the
\* first, which has a publish time only, carries the publish time, and the
\* file of the second the update time, which is not its publish time
C15_Witness ==
    /\ now = 0
    /\ \A s \in Pool : s = IdleWorker
    /\ fs[FilePath(1, 1)].exists /\ fs[FilePath(1, 1)].tagged
    /\ fs[FilePath(1, 1)].mtime = -1
    /\ fs[FilePath(1, 2)].exists /\ fs[FilePath(1, 2)].tagged
    /\ fs[FilePath(1, 2)].content = ChunksAudio(2, 2)
    /\ fs[FilePath(1, 2)].mtime = 1

\* C16: after either constructor the number of workers spawned and the
\* amount added to the completion counter are both min(configuredConcurrency,
\* queueCapacity), where queueCapacity = maxItemsPerFeed * feedCount is the
\* capacity the channel was made with.
C16_PoolConstruction ==
    mainpc # "new" =>
        LET queueCapacity == cfg.MaxItemPerFeed * cfg.Feeds
            expected      == IF concurrent <= queueCapacity
                             THEN concurrent ELSE queueCapacity
        IN  /\ capacity = queueCapacity
            /\ BagCardinality(worker) = expected
            /\ waitGroup = expected
            /\ \A s \in Pool : s \in {IdleWorker, IdleWorkerOffline}

\* C16 witness: the offline constructor, given a concurrency of 2 and one
\* feed of at most one item, has spawned one worker and added one
C16_Witness ==
    /\ mainpc = "gwait"
    /\ concurrent = 2
    /\ cfg = [MaxItemPerFeed |-> 1, Feeds |-> 1]
    /\ worker = SetToBag({IdleWorkerOffline})
    /\ waitGroup = 1

\* the requests the producers 1..f have sent in this run
RECURSIVE TotalSent(_)
TotalSent(f) == IF f = 0 THEN 0 ELSE Len(producer[f].sent) + TotalSent(f - 1)

\* C17: the requests enqueued in a run never exceed the capacity of the
\* queue, so a producer in its loop always finds room and none ever waits at
\* a send; and every run in which the goroutines keep being scheduled and
\* every call returns comes to the state in which all producers have
\* finished, the queue is closed, every worker has terminated and the join
\* has returned.
C17_RunTerminates ==
    /\ [](/\ TotalSent(Len(FEEDS)) <= capacity
          /\ \A f \in Feeds :
                /\ producer[f].pc # "send"
                /\ Len(producer[f].sent) <= cfg.MaxItemPerFeed
                /\ producer[f].pc = "items" => Len(channel) < capacity)
    /\ <>(/\ mainpc = "done"
          /\ closed
          /\ \A f \in Feeds : producer[f].pc = "done"
          /\ \A s \in Pool : s.pc = "done")

\* C17 witness: the join has returned although every worker exited early on
\* an error and requests are left in the queue
C17_Witness ==
    /\ mainpc = "done"
    /\ channel # << >>
    /\ BagCardinality(worker) = 2
    /\ \A s \in Pool : s.pc = "done" /\ s.ret # "nil"

\* byte strings the identifier is computed for: the titles of the feeds, the
\* empty title, titles of 8, 9, 24 and 25 bytes, and titles that continue
\* the 25 bytes differently
SampleTitles ==
    { TitleBytes[t] : t \in Titles }
      \cup { << >>, << 0 >>, << 255 >>, << 97, 98 >>,
             SubSeq(Pad25, 1, 8), SubSeq(Pad25, 1, 9),
             SubSeq(Pad25, 1, 24), SubSeq(Pad25, 1, 24) \o << 121 >>,
             Pad25, Pad25 \o << 98, 99 >>, << 121 >> \o Pad25 }

\* the bytes d4 1d 8c d9 8f 00 b2 04 e9 80 09 98 ec f8 42 7e
FixedDigest ==
    << 13 * 16 + 4, 16 + 13, 8 * 16 + 12, 13 * 16 + 9, 8 * 16 + 15, 0, 11 * 16 + 2, 4,
       14 * 16 + 9, 8 * 16, 9, 9 * 16 + 8, 14 * 16 + 12, 15 * 16 + 8, 4 * 16 + 2,
       7 * 16 + 14 >>

\* the hexadecimal digit k (1 is the first) of the byte string bs
HexDigit(bs, k) ==
    IF k % 2 = 1 THEN bs[(k + 1) \div 2] \div 16 ELSE bs[k \div 2] % 16

\* the first n bytes of a byte string, or all of it when it is shorter
FirstBytes(bs, n) == IF Len(bs) > n THEN SubSeq(bs, 1, n) ELSE bs

\* the identifier on the sample titles: the hexadecimal digits of the title
\* bytes followed by the fixed digest, cut to at most 50; its length is from
\* 32 to 50; titles that agree on their first 25 bytes have the same
\* identifier
C18_IdentifierShape ==
    /\ Len(FixedDigest) = 16
    /\ \A b \in SampleTitles :
          LET id == HashStringOf(b)
              n  == IF 2 * Len(b) + 32 > 50 THEN 50 ELSE 2 * Len(b) + 32
          IN  /\ Len(id) = n
              /\ Len(id) >= 32 /\ Len(id) <= 50
              /\ \A k \in 1..n : id[k] = HexDigit(b \o FixedDigest, k)
    /\ \A b \in SampleTitles : \A c \in SampleTitles :
          FirstBytes(b, 25) = FirstBytes(c, 25) => HashStringOf(b) = HashStringOf(c)

\* C18: the identifier the workers compute is the hexadecimal encoding of
\* the title bytes followed by a fixed digest of 16 bytes, cut to at most 50
\* characters, so it is 32 to 50 characters long and the same for titles
\* that agree on their first 25 bytes; a worker whose item has a title that
\* agrees on its first 25 bytes with a title whose artifact is in the same
\* directory skips the item.
C18_IdentifierDerivation ==
    [][ /\ C18_IdentifierShape
        /\ \A s \in Pool : \A t \in BagToSet(worker') :
              (Moves(s, t) /\ s.pc = "check") =>
                 LET dir   == FEEDS[s.workerItem.feed].Directory
                     title == ItemOf(s.workerItem).Title
                 IN  \A u \in Titles :
                        (/\ FirstBytes(TitleBytes[u], 25) = FirstBytes(TitleBytes[title], 25)
                         /\ fs[FilePath(dir, u)].exists) => t = IdleWorker
      ]_vars

\* C18 witness: the only worker has finished the run without an error; the
\* item of feed 2, whose title agrees on 25 bytes with that of the second
\* item of feed 1, was enqueued and received, and the file they share holds
\* the audio and the time of the item of feed 1: the item of feed 2 was
\* skipped
C18_Witness ==
    /\ mainpc = "done"
    /\ channel = << >>
    /\ BagCardinality(worker) = 1
    /\ \A s \in Pool : s.ret = "nil"
    /\ producer[1].sent = << 1, 2 >>
    /\ producer[2].sent = << 2 >>
    /\ fs[<< 1, 2 >>].exists /\ fs[<< 1, 2 >>].tagged
    /\ fs[<< 1, 2 >>].content = ChunksAudio(2, 2)
    /\ fs[<< 1, 2 >>].mtime = 1

(***************************************************************************)
(* Specifications                                                          *)
(***************************************************************************)
Next ==
    \/ Tick
    \/ \E f \in Feeds : ParseFeed(f)
    \/ \E f \in Feeds : CreateSpeechFromItems(f)
    \/ Close
    \/ WaitGroupWait
    \/ \E me \in Pool : Receive(me)
    \/ \E me \in Pool : Check(me)
    \/ \E me \in Pool : \E o \in Outcomes : Synthesize(me, o)
    \/ \E me \in Pool : \E o \in {"ok", "open fails", "write fails"} : WriteFile(me, o)
    \/ \E me \in Pool : WriteID3Tag(me)
    \/ \E me \in Pool : \E ok \in BOOLEAN : Chtimes(me, ok)

Spec == Init /\ [][Next]_vars

\* the runs of the program, one after the other
SpecRerun == Init /\ [][Next \/ Rerun]_vars

\* the steps of the goroutines: a producer, main, the workers
ProducerStep(f) == ParseFeed(f) \/ CreateSpeechFromItems(f)

MainStep == Close \/ WaitGroupWait

WorkerStep ==
    \E me \in Pool :
        \/ Receive(me)
        \/ Check(me)
        \/ \E o \in Outcomes : Synthesize(me, o)
        \/ \E o \in {"ok", "open fails", "write fails"} : WriteFile(me, o)
        \/ WriteID3Tag(me)
        \/ \E ok \in BOOLEAN : Chtimes(me, ok)

\* The runs in which every goroutine that can take a step takes one in the
\* end: the Go scheduler runs every runnable goroutine, and every call of
\* the backend and of the file system returns.
SpecFair ==
    /\ Spec
    /\ \A f \in Feeds : WF_vars(ProducerStep(f))
    /\ WF_vars(MainStep)
    /\ WF_vars(WorkerStep)

\* the constructors on every configuration
NextConstruct ==
    \/ NewWorkerGroup
    \/ NewWorkerGroupOffline

SpecConstruct == InitConstruct /\ [][NextConstruct]_vars

\* the pipeline with more items ready than the channel holds
SpecBackpressure == InitBackpressure /\ [][Next]_vars

====
